---- MODULE Spec2Model ----
(***************************************************************************)
(* The SPSC byte fifo of util/no_os_lf256fifo.c (struct lf256fifo and the  *)
(* lf256fifo_* functions), as a state machine.                             *)
(*                                                                         *)
(* The fifo's fields are the variables data, ffilled and fempty.  The     *)
(* variables op, ret, c_in and c_out describe the most recent call: which  *)
(* function it was, what it returned, the byte handed to it (the argument  *)
(* c of lf256fifo_write, or the content of *c before lf256fifo_read) and   *)
(* the content of *c after lf256fifo_read.  The remaining variables are    *)
(* history variables that the code does not have: they count what the      *)
(* callers did, so that the properties can speak about it.                 *)
(*                                                                         *)
(* The module also holds the register access and operation mode functions  *)
(* of drivers/accel/adxl314/adxl314.c: regs is the register file of the    *)
(* accelerometer at the other end of the bus, dev the driver's struct      *)
(* adxl314_dev, and op and ret describe the most recent driver call too.   *)
(***************************************************************************)
EXTENDS Integers, Naturals, Sequences, FiniteSets, TLC

\* ---------------------------------------------------------------- bounds

\* The producer stops after this many accepted bytes (more than one lap of
\* the 256 slots, so that both indices wrap).
MaxWrites == 260

\* The number of byte streams the producer may be sending.
NumStreams == 2

\* With lf256fifo_init in the picture, the producer stops after this many
\* accepted bytes.
InitWrites == 8

\* ------------------------------------------------------ program constants

\* calloc(1, 256): the size of the data area, and the range of a uint8_t index.
DataSize == 256

\* <errno.h>: return -EINVAL, return -ENOMEM
EINVAL == 22
ENOMEM == 12

\* ------------------------------------------------------------ the callers

\* A value that is no byte: the place of c_in / c_out for a call without one.
NoByte == DataSize

\* What the caller's byte *c may hold before a call of lf256fifo_read.
CallerBytes == {0, 255}

\* The i-th byte (from 0) of stream s.  Stream 1 starts 0x41, 0x42, 0x43.
\* The period 251 does not divide 256: the bytes 256 positions apart differ.
Payload(s, i) == (65 * s + i) % 251

VARIABLES
    data,       \* fifo->data[0..255]
    ffilled,    \* fifo->ffilled: first filled slot  (the spec's head)
    fempty,     \* fifo->fempty: first empty slot    (the spec's tail)
    op,         \* the most recent call
    ret,        \* its return value (a bool as 1 / 0)
    c_in,       \* the byte handed to it, or NoByte
    c_out,      \* *c after lf256fifo_read, or NoByte
    stream,     \* history: the stream the producer sends
    accepted,   \* history: number of writes that returned 0 so far
    taken,      \* history: number of accepted bytes returned by read or
                \*          discarded by flush so far
    writesOnly, \* history: no read and no flush was called since init
    sinceFlush, \* history: flush was called and no write returned 0 since
    heap,       \* the blocks calloc handed out that were not freed
    handle,     \* *fifo, the caller's pointer that lf256fifo_init assigns
    init_in,    \* the argument of the last lf256fifo_init and what calloc
                \* answered (or would have answered) to it
    callocs,    \* the number of calloc calls the last lf256fifo_init made
    phase,      \* the caller's phase in the fill-then-drain scenario
    pcW,        \* the producer's position inside lf256fifo_write
    pcR,        \* the consumer's position inside lf256fifo_read
    regs,       \* the accelerometer's registers, by register address
    dev,        \* struct adxl314_dev: the fields comm_type and op_mode
    m_in,       \* the op_mode argument of the last adxl314_set_op_mode
    m_out,      \* *op_mode as the last adxl314_get_op_mode left it
    bus,        \* the register transfers the last driver call made
    last_set,   \* history: the mode of the last adxl314_set_op_mode that
                \* returned 0, if POWER_CTL was not written otherwise since
    bit_in,     \* the arguments action and modified_bit of the last call
                \* of adxl314_control_reg_bit by the application, or the
                \* argument enable of the last adxl314_autosleep with the
                \* bit it names
    fl_tail,    \* the value of fempty that a running lf256fifo_flush has
                \* loaded, or NoByte
    fl_mark,    \* history: the number of writes that had returned 0 when
                \* the running lf256fifo_flush loaded fempty
    cache,      \* struct adxl314_dev: the fields odr, x_offset, y_offset,
                \* z_offset, fifo_mode and fifo_samples
    device,     \* *device, the caller's pointer that adxl314_init assigns
    devheap,    \* the device structures and bus descriptors that were
                \* allocated and not released
    arg_in,     \* the argument samples of the last
                \* adxl314_set_fifo_samples, or what calloc and the bus
                \* initialisation answered to the last adxl314_init
    acc         \* the array elements the last adxl355_get_fifo_data and
                \* its adxl314_get_raw_fifo_data used

fifo == <<data, ffilled, fempty>>
frame == <<op, ret, c_in, c_out>>
history == <<stream, accepted, taken, writesOnly, sinceFlush>>
alloc == <<heap, handle, init_in, callocs>>
vars == <<data, ffilled, fempty, op, ret, c_in, c_out,
          stream, accepted, taken, writesOnly, sinceFlush, heap, handle,
          init_in, callocs, phase, pcW, pcR,
          regs, dev, m_in, m_out, bus, last_set, bit_in, fl_tail, fl_mark,
          cache, device, devheap, arg_in, acc>>

\* ------------------------------------------------- the adxl314 constants

\* adxl314.h: #define ADXL314_SPI_READ (0x80), ADXL314_SPI_WRITE (0x00)
ADXL314_SPI_READ == 128
ADXL314_SPI_WRITE == 0

\* adxl314.h: #define ADXL314_REG_POWER_CTL 0x2D
ADXL314_REG_POWER_CTL == 45

\* adxl314.h: #define ADXL314_DEVID_AD 0x00, ADXL314_REG_OFS_AXIS(index)
\* (0x1E + (index)), ADXL314_REG_BW_RATE 0x2C, ADXL314_REG_DATA_AXIS(index)
\* (0x32 + ((index) * 2)), ADXL314_REG_FIFO_CTL 0x38,
\* ADXL314_REG_FIFO_STATUS 0x39
ADXL314_DEVID_AD == 0
ADXL314_REG_OFS_AXIS(index) == 30 + index
ADXL314_REG_BW_RATE == 44
ADXL314_REG_DATA_AXIS(index) == 50 + index * 2
ADXL314_REG_FIFO_CTL == 56
ADXL314_REG_FIFO_STATUS == 57

\* adxl314.h: #define ADXL314_DEVID 0xE5
ADXL314_DEVID == 229

\* adxl314.h: #define ADXL314_MAX_FIFO_SAMPLES_VAL 0x60
ADXL314_MAX_FIFO_SAMPLES_VAL == 96

\* adxl314.h: #define ADXL314_REGS_PER_ENTRY 6, ADXL314_MAX_FIFO_ENTRIES 32
ADXL314_REGS_PER_ENTRY == 6
ADXL314_MAX_FIFO_ENTRIES == 32

\* no_os_util.h: NO_OS_BIT(x) is 1 << x
NO_OS_BIT(n) == 2 ^ n

\* no_os_util.h: NO_OS_GENMASK(h, l) has the bits l..h set
NO_OS_GENMASK(h, l) == 2 ^ (h + 1) - 2 ^ l

\* adxl314.h: #define ADXL314_RATE_MSK NO_OS_GENMASK(3, 0),
\* ADXL314_REG_FIFO_CTL_MODE_MSK NO_OS_GENMASK(7, 6),
\* ADXL314_REG_FIFO_CTL_SAMPLES_MSK NO_OS_GENMASK(4, 0),
\* ADXL314_REG_FIFO_STS_ENTRIES_MSK NO_OS_GENMASK(5, 0)
ADXL314_RATE_MSK == NO_OS_GENMASK(3, 0)
ADXL314_REG_FIFO_CTL_MODE_MSK == NO_OS_GENMASK(7, 6)
ADXL314_REG_FIFO_CTL_SAMPLES_MSK == NO_OS_GENMASK(4, 0)
ADXL314_REG_FIFO_STS_ENTRIES_MSK == NO_OS_GENMASK(5, 0)

\* adxl314.h: #define ADXL314_POWER_CTL_LINK NO_OS_BIT(5),
\* ADXL314_POWER_CTL_AUTO_SLEEP NO_OS_BIT(4), ADXL314_POWER_CTL_SLEEP
\* NO_OS_BIT(2)
ADXL314_POWER_CTL_LINK == NO_OS_BIT(5)
ADXL314_POWER_CTL_AUTO_SLEEP == NO_OS_BIT(4)
ADXL314_POWER_CTL_SLEEP == NO_OS_BIT(2)

\* adxl314.h: #define ADXL314_POWER_CTL_MEASURE NO_OS_BIT(3)
ADXL314_POWER_CTL_MEASURE == NO_OS_BIT(3)

\* adxl314.h: enum adxl314_op_mode
ADXL314_STDBY == 0
ADXL314_MEAS == 1

\* adxl314.h: enum adxl314_comm_type
ADXL314_SPI_COMM == 0
ADXL314_I2C_COMM == 1

\* adxl314.h: enum bit_action
DISABLE_E == 0
ENABLE_E == 1

\* <errno.h>: return -EPIPE, return -ENOSYS
EPIPE == 32
ENODEV == 19
ENOSYS == 38

\* A value that is no operation mode: the place of m_in / m_out / last_set
\* when there is none.
NoMode == 255

\* The registers of the accelerometer that the modelled functions address.
RegAddrs == {ADXL314_REG_POWER_CTL}

\* What a call of the bus layer (no_os_spi_write_and_read, no_os_i2c_write,
\* no_os_i2c_read) may return: 0, or a negative error code.
BusResults == {0, -1}

adxl == <<regs, dev, m_in, m_out, bus, last_set, bit_in>>
flushv == <<fl_tail, fl_mark>>
drv == <<cache, device, devheap, arg_in, acc>>

\* The place of bit_in when the last call was not adxl314_control_reg_bit.
NoBitArgs == [action |-> NoMode, modified_bit |-> 0]

\* No lf256fifo_flush is between its load and its store.
NoFlush ==
    /\ fl_tail = NoByte
    /\ fl_mark = 0

\* calloc(1, sizeof(*dev)) in adxl314_init: the cached fields are 0.
ZeroCache == [odr |-> 0, x_offset |-> 0, y_offset |-> 0, z_offset |-> 0,
              fifo_mode |-> 0, fifo_samples |-> 0]

\* The caller's pointer: not assigned by adxl314_init, or the address of
\* the structure adxl314_init allocated.
NoDev == "none"
DevPtr == "dev"

\* The two allocations of adxl314_init: the structure (calloc) and the bus
\* descriptor (no_os_spi_init / no_os_i2c_init).
DevBlock == "dev"
ComDesc == "com_desc"

\* The place of acc when no FIFO data was fetched: no element was used.
NoAccess == [entries |-> 0, xyz_wr |-> -1, xyz_rd |-> -1, raw_wr |-> -1,
             raw_rd |-> -1, buff_wide |-> 0]

\* No call of adxl314_init, adxl314_set_fifo_samples or
\* adxl355_get_fifo_data was made.
NoDrv ==
    /\ cache = ZeroCache
    /\ device = NoDev
    /\ devheap = {}
    /\ arg_in = NoByte
    /\ acc = NoAccess

\* The driver is not in use: no device structure, registers at rest.
NoDevice ==
    /\ NoDrv
    /\ regs = [a \in RegAddrs |-> 0]
    /\ dev = [comm_type |-> ADXL314_SPI_COMM, op_mode |-> ADXL314_STDBY]
    /\ m_in = NoMode
    /\ m_out = NoMode
    /\ bus = << >>
    /\ last_set = NoMode
    /\ bit_in = NoBitArgs

\* ------------------------------------------------------------- the code

\* A slip in the index arithmetic: the incremented index is kept as an int
\* and not truncated to 8 bits.
Inc8_wide(x) == x + 1

\* A slip in the index arithmetic: the index wraps one slot early, at 255.
Inc8_short(x) == (x + 1) % (DataSize - 1)

\* x++ on a uint8_t: the stored result is truncated to 8 bits.
Inc8(x) == (x + 1) % DataSize

\* A slip in lf256fifo_is_full: full is reported one slot early.
lf256fifo_is_full_early(fe, ff) == (fe + 2) = ff

\* (fifo->fempty + 1) == fifo->ffilled.  Both operands are promoted to int
\* before the addition and the comparison, so the sum is not truncated: for
\* fempty = 255 it is 256, which no uint8_t ffilled equals.
lf256fifo_is_full(fe, ff) == (fe + 1) = ff

\* A slip in lf256fifo_is_empty: the comparison of lf256fifo_is_full pasted in.
lf256fifo_is_empty_pasted(fe, ff) == (fe + 1) = ff

\* fifo->fempty == fifo->ffilled
lf256fifo_is_empty(fe, ff) == fe = ff

\* lf256fifo_init on its success path: calloc zeroes the struct and the data.
Init ==
    /\ data = [i \in 0..(DataSize - 1) |-> 0]
    /\ ffilled = 0
    /\ fempty = 0
    /\ op = "init"
    /\ ret = 0
    /\ c_in = NoByte
    /\ c_out = NoByte
    /\ stream \in 0..(NumStreams - 1)
    /\ accepted = 0
    /\ taken = 0
    /\ writesOnly = TRUE
    /\ sinceFlush = FALSE
    /\ heap = {"b", "data"}
    /\ handle = "b"
    /\ init_in = [fifo |-> "loc", okB |-> TRUE, okData |-> TRUE]
    /\ callocs = 2
    /\ phase = "fill"
    /\ pcW = "idle"
    /\ pcR = "idle"
    /\ NoDevice
    /\ NoFlush

\* A slip in lf256fifo_write: the index is advanced before the byte is stored.
lf256fifo_write_incfirst(c) ==
    /\ op' = "write"
    /\ c_in' = c
    /\ c_out' = NoByte
    /\ IF lf256fifo_is_full(fempty, ffilled)
       THEN /\ ret' = -1
            /\ UNCHANGED <<data, fempty, accepted, sinceFlush>>
       ELSE /\ fempty' = Inc8(fempty)
            /\ data' = [data EXCEPT ![fempty'] = c]
            /\ ret' = 0
            /\ accepted' = accepted + 1
            /\ sinceFlush' = FALSE
    /\ UNCHANGED <<ffilled, stream, taken, writesOnly, alloc, adxl, flushv, drv, pcW, pcR>>

\* int lf256fifo_write(struct lf256fifo *fifo, uint8_t c), as one step.
lf256fifo_write(c) ==
    /\ op' = "write"
    /\ c_in' = c
    /\ c_out' = NoByte
    /\ IF lf256fifo_is_full(fempty, ffilled)
       THEN /\ ret' = -1
            /\ UNCHANGED <<data, fempty, accepted, sinceFlush>>
       ELSE /\ data' = [data EXCEPT ![fempty] = c]
            /\ fempty' = Inc8(fempty)
            /\ ret' = 0
            /\ accepted' = accepted + 1
            /\ sinceFlush' = FALSE
    /\ UNCHANGED <<ffilled, stream, taken, writesOnly, alloc, adxl, flushv, drv, pcW, pcR>>

\* A slip in lf256fifo_read: the slot that was read is cleared.
lf256fifo_read_clear(c0) ==
    /\ op' = "read"
    /\ c_in' = c0
    /\ IF lf256fifo_is_empty(fempty, ffilled)
       THEN /\ ret' = -1
            /\ c_out' = c0
            /\ UNCHANGED <<data, ffilled, taken>>
       ELSE /\ c_out' = data[ffilled]
            /\ data' = [data EXCEPT ![ffilled] = 0]
            /\ ffilled' = Inc8(ffilled)
            /\ ret' = 0
            /\ taken' = taken + 1
    /\ writesOnly' = FALSE
    /\ UNCHANGED <<fempty, stream, accepted, sinceFlush, alloc, adxl, flushv, drv,
                   pcW, pcR>>

\* A slip in lf256fifo_read: *c is assigned before the fifo is found empty.
lf256fifo_read_early(c0) ==
    /\ op' = "read"
    /\ c_in' = c0
    /\ c_out' = data[ffilled]
    /\ IF lf256fifo_is_empty(fempty, ffilled)
       THEN /\ ret' = -1
            /\ UNCHANGED <<ffilled, taken>>
       ELSE /\ ffilled' = Inc8(ffilled)
            /\ ret' = 0
            /\ taken' = taken + 1
    /\ writesOnly' = FALSE
    /\ UNCHANGED <<data, fempty, stream, accepted, sinceFlush, alloc, adxl, flushv, drv,
                   pcW, pcR>>

\* A slip in lf256fifo_read: the index is advanced before the byte is loaded.
lf256fifo_read_incfirst(c0) ==
    /\ op' = "read"
    /\ c_in' = c0
    /\ IF lf256fifo_is_empty(fempty, ffilled)
       THEN /\ ret' = -1
            /\ c_out' = c0
            /\ UNCHANGED <<ffilled, taken>>
       ELSE /\ ffilled' = Inc8(ffilled)
            /\ c_out' = data[ffilled']
            /\ ret' = 0
            /\ taken' = taken + 1
    /\ writesOnly' = FALSE
    /\ UNCHANGED <<data, fempty, stream, accepted, sinceFlush, alloc, adxl, flushv, drv,
                   pcW, pcR>>

\* int lf256fifo_read(struct lf256fifo *fifo, uint8_t *c), as one step; c0 is
\* what *c holds when the call is made.
lf256fifo_read(c0) ==
    /\ op' = "read"
    /\ c_in' = c0
    /\ IF lf256fifo_is_empty(fempty, ffilled)
       THEN /\ ret' = -1
            /\ c_out' = c0
            /\ UNCHANGED <<ffilled, taken>>
       ELSE /\ c_out' = data[ffilled]
            /\ ffilled' = Inc8(ffilled)
            /\ ret' = 0
            /\ taken' = taken + 1
    /\ writesOnly' = FALSE
    /\ UNCHANGED <<data, fempty, stream, accepted, sinceFlush, alloc, adxl, flushv, drv,
                   pcW, pcR>>

\* A slip in lf256fifo_flush: the assignment the other way round, the write
\* index set to the read index.
lf256fifo_flush_tail ==
    /\ op' = "flush"
    /\ ret' = 0
    /\ c_in' = NoByte
    /\ c_out' = NoByte
    /\ fempty' = ffilled
    /\ taken' = accepted
    /\ writesOnly' = FALSE
    /\ sinceFlush' = TRUE
    /\ UNCHANGED <<data, ffilled, stream, accepted, alloc, adxl, flushv, drv, pcW, pcR>>

\* A slip in lf256fifo_flush: the read index is reset to the start of the
\* buffer instead of to the write index.
lf256fifo_flush_reset ==
    /\ op' = "flush"
    /\ ret' = 0
    /\ c_in' = NoByte
    /\ c_out' = NoByte
    /\ ffilled' = 0
    /\ taken' = accepted
    /\ writesOnly' = FALSE
    /\ sinceFlush' = TRUE
    /\ UNCHANGED <<data, fempty, stream, accepted, alloc, adxl, flushv, drv, pcW, pcR>>

\* void lf256fifo_flush(struct lf256fifo *fifo)
lf256fifo_flush ==
    /\ op' = "flush"
    /\ ret' = 0
    /\ c_in' = NoByte
    /\ c_out' = NoByte
    /\ ffilled' = fempty
    /\ taken' = accepted
    /\ writesOnly' = FALSE
    /\ sinceFlush' = TRUE
    /\ UNCHANGED <<data, fempty, stream, accepted, alloc, adxl, flushv, drv, pcW, pcR>>

\* A slip in lf256fifo_is_full: fempty++ in the place of fempty + 1.
Call_is_full_inc ==
    /\ op' = "is_full"
    /\ ret' = IF lf256fifo_is_full(fempty, ffilled) THEN 1 ELSE 0
    /\ fempty' = Inc8(fempty)
    /\ c_in' = NoByte
    /\ c_out' = NoByte
    /\ UNCHANGED <<data, ffilled, history, alloc, adxl, flushv, drv, pcW, pcR>>

\* A call of lf256fifo_is_full by either side.
Call_is_full ==
    /\ op' = "is_full"
    /\ ret' = IF lf256fifo_is_full(fempty, ffilled) THEN 1 ELSE 0
    /\ c_in' = NoByte
    /\ c_out' = NoByte
    /\ UNCHANGED <<fifo, history, alloc, adxl, flushv, drv, pcW, pcR>>

\* A call of lf256fifo_is_empty by either side.
Call_is_empty ==
    /\ op' = "is_empty"
    /\ ret' = IF lf256fifo_is_empty(fempty, ffilled) THEN 1 ELSE 0
    /\ c_in' = NoByte
    /\ c_out' = NoByte
    /\ UNCHANGED <<fifo, history, alloc, adxl, flushv, drv, pcW, pcR>>

\* ------------------------------------------------- construction: SpecInit
\* The program before lf256fifo_init has succeeded: there is no fifo (its
\* fields hold no value), nothing is allocated and the caller's pointer is
\* not assigned.

NoQueue ==
    /\ data = << >>
    /\ ffilled = NoByte
    /\ fempty = NoByte
    /\ op = "none"
    /\ ret = 0
    /\ c_in = NoByte
    /\ c_out = NoByte
    /\ accepted = 0
    /\ taken = 0
    /\ writesOnly = TRUE
    /\ sinceFlush = FALSE
    /\ heap = {}
    /\ handle = "none"
    /\ init_in = [fifo |-> "none", okB |-> FALSE, okData |-> FALSE]
    /\ callocs = 0
    /\ phase = "fill"
    /\ pcW = "idle"
    /\ pcR = "idle"

InitPre ==
    /\ NoQueue
    /\ stream \in 0..(NumStreams - 1)
    /\ NoDevice
    /\ NoFlush

\* A slip in lf256fifo_init: malloc in the place of calloc, so that the
\* indices start with whatever the memory held.
lf256fifo_init_malloc(f, okB, okData) ==
    /\ op' = "init"
    /\ init_in' = [fifo |-> f, okB |-> okB, okData |-> okData]
    /\ c_in' = NoByte
    /\ c_out' = NoByte
    /\ IF f = "NULL"
       THEN /\ ret' = -EINVAL
            /\ callocs' = 0
            /\ UNCHANGED <<fifo, heap, handle>>
       ELSE IF ~okB
       THEN /\ ret' = -ENOMEM
            /\ callocs' = 1
            /\ UNCHANGED <<fifo, heap, handle>>
       ELSE IF ~okData
       THEN /\ ret' = -ENOMEM
            /\ callocs' = 2
            /\ heap' = (heap \cup {"b"}) \ {"b"}
            /\ UNCHANGED <<fifo, handle>>
       ELSE /\ ret' = 0
            /\ callocs' = 2
            /\ heap' = heap \cup {"b", "data"}
            /\ data' = [i \in 0..(DataSize - 1) |-> 0]
            /\ ffilled' \in {0, 1}
            /\ fempty' \in {0, 1}
            /\ handle' = "b"
    /\ UNCHANGED <<history, adxl, flushv, drv, phase, pcW, pcR>>

\* A slip in lf256fifo_init: no free(b) when the second calloc fails.
lf256fifo_init_leak(f, okB, okData) ==
    /\ op' = "init"
    /\ init_in' = [fifo |-> f, okB |-> okB, okData |-> okData]
    /\ c_in' = NoByte
    /\ c_out' = NoByte
    /\ IF f = "NULL"
       THEN /\ ret' = -EINVAL
            /\ callocs' = 0
            /\ UNCHANGED <<fifo, heap, handle>>
       ELSE IF ~okB
       THEN /\ ret' = -ENOMEM
            /\ callocs' = 1
            /\ UNCHANGED <<fifo, heap, handle>>
       ELSE IF ~okData
       THEN /\ ret' = -ENOMEM
            /\ callocs' = 2
            /\ heap' = heap \cup {"b"}
            /\ UNCHANGED <<fifo, handle>>
       ELSE /\ ret' = 0
            /\ callocs' = 2
            /\ heap' = heap \cup {"b", "data"}
            /\ data' = [i \in 0..(DataSize - 1) |-> 0]
            /\ ffilled' = 0
            /\ fempty' = 0
            /\ handle' = "b"
    /\ UNCHANGED <<history, adxl, flushv, drv, phase, pcW, pcR>>

\* A slip in lf256fifo_init: the result of the second calloc is not tested.
lf256fifo_init_unchecked(f, okB, okData) ==
    /\ op' = "init"
    /\ init_in' = [fifo |-> f, okB |-> okB, okData |-> okData]
    /\ c_in' = NoByte
    /\ c_out' = NoByte
    /\ IF f = "NULL"
       THEN /\ ret' = -EINVAL
            /\ callocs' = 0
            /\ UNCHANGED <<fifo, heap, handle>>
       ELSE IF ~okB
       THEN /\ ret' = -ENOMEM
            /\ callocs' = 1
            /\ UNCHANGED <<fifo, heap, handle>>
       ELSE /\ ret' = 0
            /\ callocs' = 2
            /\ heap' = heap \cup (IF okData THEN {"b", "data"} ELSE {"b"})
            /\ data' = [i \in 0..(DataSize - 1) |-> 0]
            /\ ffilled' = 0
            /\ fempty' = 0
            /\ handle' = "b"
    /\ UNCHANGED <<history, adxl, flushv, drv, phase, pcW, pcR>>

\* int lf256fifo_init(struct lf256fifo **fifo).  f is the argument ("NULL" or
\* the caller's location); okB and okData say whether the first and the
\* second calloc succeed when they are called.
lf256fifo_init(f, okB, okData) ==
    /\ op' = "init"
    /\ init_in' = [fifo |-> f, okB |-> okB, okData |-> okData]
    /\ c_in' = NoByte
    /\ c_out' = NoByte
    /\ IF f = "NULL"
       THEN /\ ret' = -EINVAL
            /\ callocs' = 0
            /\ UNCHANGED <<fifo, heap, handle>>
       ELSE IF ~okB
       THEN /\ ret' = -ENOMEM
            /\ callocs' = 1
            /\ UNCHANGED <<fifo, heap, handle>>
       ELSE IF ~okData
       THEN /\ ret' = -ENOMEM
            /\ callocs' = 2
            /\ heap' = (heap \cup {"b"}) \ {"b"}
            /\ UNCHANGED <<fifo, handle>>
       ELSE /\ ret' = 0
            /\ callocs' = 2
            /\ heap' = heap \cup {"b", "data"}
            /\ data' = [i \in 0..(DataSize - 1) |-> 0]
            /\ ffilled' = 0
            /\ fempty' = 0
            /\ handle' = "b"
    /\ UNCHANGED <<history, adxl, flushv, drv, phase, pcW, pcR>>

\* The caller constructs the fifo, trying again after a failure.
Construct ==
    /\ handle = "none"
    /\ \E f \in {"NULL", "loc"}, okB \in BOOLEAN, okData \in BOOLEAN :
           lf256fifo_init(f, okB, okData)

\* ------------------------------------------------- sequential use: Spec
\* Calls made one after the other, in any order (the consumer and the
\* producer never inside a call at the same time).

\* The producer sends the next byte of its stream.
Write == accepted < MaxWrites /\ lf256fifo_write(Payload(stream, accepted))

\* The consumer reads into a byte that holds c0.
Read == \E c0 \in CallerBytes : lf256fifo_read(c0)

Next ==
    \/ Write /\ UNCHANGED phase
    \/ Read /\ UNCHANGED phase
    \/ lf256fifo_flush /\ UNCHANGED phase
    \/ Call_is_full /\ UNCHANGED phase
    \/ Call_is_empty /\ UNCHANGED phase

Spec == Init /\ [][Next]_vars

\* Construction, and then the calls of Spec on the fifo that was handed back.
NextInit ==
    \/ Construct
    \/ handle = "b" /\ accepted < InitWrites /\ Write /\ UNCHANGED phase
    \/ handle = "b" /\ Read /\ UNCHANGED phase
    \/ handle = "b" /\ lf256fifo_flush /\ UNCHANGED phase
    \/ handle = "b" /\ Call_is_full /\ UNCHANGED phase
    \/ handle = "b" /\ Call_is_empty /\ UNCHANGED phase

SpecInit == InitPre /\ [][NextInit]_vars

\* ------------------------------------------ fill then drain: SpecFifo
\* The caller of the FIFO scenario: starting with nothing pending it writes
\* at most 255 bytes, then reads; once it has started reading it writes
\* nothing until a read was made with nothing pending (the "further read").
\* The scenario starts on an empty queue whose indices have the common value
\* h: the queue after init and h bytes 0x00 written and read, from where the
\* history variables count.

\* The common values of head and tail the scenario starts from.
StartIndexes == {0, 1, DataSize \div 2, DataSize - 1}

InitFifo ==
    /\ data = [i \in 0..(DataSize - 1) |-> 0]
    /\ ffilled \in StartIndexes
    /\ fempty = ffilled
    /\ op = "read"
    /\ ret = -1
    /\ c_in \in CallerBytes
    /\ c_out = c_in
    /\ stream \in 0..(NumStreams - 1)
    /\ accepted = 0
    /\ taken = 0
    /\ writesOnly = FALSE
    /\ sinceFlush = FALSE
    /\ heap = {"b", "data"}
    /\ handle = "b"
    /\ init_in = [fifo |-> "loc", okB |-> TRUE, okData |-> TRUE]
    /\ callocs = 2
    /\ phase = "fill"
    /\ pcW = "idle"
    /\ pcR = "idle"
    /\ NoDevice
    /\ NoFlush

Pending == accepted - taken

FillWrite ==
    /\ phase = "fill"
    /\ Pending < DataSize - 1
    /\ Write
    /\ phase' = "fill"

DrainRead ==
    /\ Read
    /\ phase' = IF Pending = 0 THEN "fill" ELSE "drain"

NextFifo ==
    \/ FillWrite
    \/ DrainRead

SpecFifo == InitFifo /\ [][NextFifo]_vars

\* -------------------------------- producer against consumer: SpecConc
\* lf256fifo_write in the producer and lf256fifo_read in the consumer, each
\* interleaved with the other at its loads and stores of the shared fields
\* (an interrupt handler against the code it interrupts, on one core).  The
\* byte the producer is writing is Payload(stream, accepted).

\* write, line 93: the call of lf256fifo_is_full (loads fempty and ffilled).
W_check ==
    /\ pcW = "idle"
    /\ accepted < MaxWrites
    /\ IF lf256fifo_is_full(fempty, ffilled)
       THEN /\ op' = "write"
            /\ ret' = -1
            /\ pcW' = "idle"
       ELSE /\ pcW' = "store"
            /\ UNCHANGED <<op, ret>>
    /\ UNCHANGED <<fifo, c_in, c_out, history, alloc, adxl, flushv, drv, phase, pcR>>

\* write, line 96: fifo->data[fifo->fempty] = c
W_store ==
    /\ pcW = "store"
    /\ data' = [data EXCEPT ![fempty] = Payload(stream, accepted)]
    /\ pcW' = "advance"
    /\ UNCHANGED <<ffilled, fempty, frame, history, alloc, adxl, flushv, drv, phase, pcR>>

\* write, lines 97-99: fifo->fempty++; return 0
W_advance ==
    /\ pcW = "advance"
    /\ fempty' = Inc8(fempty)
    /\ accepted' = accepted + 1
    /\ op' = "write"
    /\ ret' = 0
    /\ pcW' = "idle"
    /\ sinceFlush' = FALSE
    /\ UNCHANGED <<data, ffilled, c_in, c_out, stream, taken, writesOnly,
                   alloc, adxl, flushv, drv, phase, pcR>>

\* A slip in lf256fifo_read: the call waits for a byte instead of returning.
R_check_waiting ==
    /\ pcR = "idle"
    /\ ~lf256fifo_is_empty(fempty, ffilled)
    /\ pcR' = "load"
    /\ writesOnly' = FALSE
    /\ UNCHANGED <<fifo, frame, stream, accepted, taken, sinceFlush,
                   alloc, adxl, flushv, drv, phase, pcW>>

\* read, line 82: the call of lf256fifo_is_empty (loads fempty and ffilled).
R_check ==
    /\ pcR = "idle"
    /\ IF lf256fifo_is_empty(fempty, ffilled)
       THEN /\ op' = "read"
            /\ ret' = -1
            /\ pcR' = "idle"
       ELSE /\ pcR' = "load"
            /\ UNCHANGED <<op, ret>>
    /\ writesOnly' = FALSE
    /\ UNCHANGED <<fifo, c_in, c_out, stream, accepted, taken, sinceFlush,
                   alloc, adxl, flushv, drv, phase, pcW>>

\* read, line 85: *c = fifo->data[fifo->ffilled]
R_load ==
    /\ pcR = "load"
    /\ c_out' = data[ffilled]
    /\ pcR' = "advance"
    /\ UNCHANGED <<fifo, op, ret, c_in, history, alloc, adxl, flushv, drv, phase, pcW>>

\* read, lines 86-88: fifo->ffilled++; return 0
R_advance ==
    /\ pcR = "advance"
    /\ ffilled' = Inc8(ffilled)
    /\ taken' = taken + 1
    /\ op' = "read"
    /\ ret' = 0
    /\ pcR' = "idle"
    /\ UNCHANGED <<data, fempty, c_in, c_out, stream, accepted, writesOnly,
                   sinceFlush, alloc, adxl, flushv, drv, phase, pcW>>

NextConc ==
    \/ W_check
    \/ W_store
    \/ W_advance
    \/ R_check
    \/ R_load
    \/ R_advance

SpecConc == Init /\ [][NextConc]_vars

\* The same two contexts with a producer that starts a write only while
\* fewer than 254 bytes are pending, so that never more than 254 are.
W_checkBelow == Pending < DataSize - 2 /\ W_check

NextWrap ==
    \/ W_checkBelow
    \/ W_store
    \/ W_advance
    \/ R_check
    \/ R_load
    \/ R_advance

SpecWrap == Init /\ [][NextWrap]_vars

\* ------------------------------- flush against the producer: SpecFlush
\* lf256fifo_flush in the consumer, interleaved at its load of fempty and
\* its store to ffilled with lf256fifo_write in the producer.  The consumer
\* also reads, between its flushes; at most one write returns 0 while a
\* flush is between its load and its store.

\* flush, line 104, right-hand side: the load of fifo->fempty
F_load ==
    /\ pcR = "idle"
    /\ pcR' = "flush"
    /\ fl_tail' = fempty
    /\ fl_mark' = accepted
    /\ writesOnly' = FALSE
    /\ UNCHANGED <<fifo, frame, stream, accepted, taken, sinceFlush,
                   alloc, adxl, drv, phase, pcW>>

\* A slip in lf256fifo_flush: fempty is loaded a second time for the store,
\* after the bytes to discard were determined.
F_store_reload ==
    /\ pcR = "flush"
    /\ ffilled' = fempty
    /\ taken' = fl_mark
    /\ sinceFlush' = (accepted = fl_mark)
    /\ op' = "flush"
    /\ ret' = 0
    /\ c_in' = NoByte
    /\ c_out' = NoByte
    /\ pcR' = "idle"
    /\ fl_tail' = NoByte
    /\ fl_mark' = 0
    /\ UNCHANGED <<data, fempty, stream, accepted, writesOnly,
                   alloc, adxl, drv, phase, pcW>>

\* flush, line 104, left-hand side: the store to fifo->ffilled; return
F_store ==
    /\ pcR = "flush"
    /\ ffilled' = fl_tail
    /\ taken' = fl_mark
    /\ sinceFlush' = (accepted = fl_mark)
    /\ op' = "flush"
    /\ ret' = 0
    /\ c_in' = NoByte
    /\ c_out' = NoByte
    /\ pcR' = "idle"
    /\ fl_tail' = NoByte
    /\ fl_mark' = 0
    /\ UNCHANGED <<data, fempty, stream, accepted, writesOnly,
                   alloc, adxl, drv, phase, pcW>>

\* The producer enters lf256fifo_write, unless a write has returned 0
\* since the running flush loaded fempty.
W_checkRace == (pcR = "flush" => accepted = fl_mark) /\ W_check

\* The consumer, not in a flush, makes a whole call of lf256fifo_read, with
\* *c = 0 before the call.
ReadBetween == pcR = "idle" /\ lf256fifo_read(0) /\ UNCHANGED phase

\* The queue after lf256fifo_init, the producer sending stream 1.
InitFlush == Init /\ stream = 1

NextFlush ==
    \/ W_checkRace
    \/ W_store
    \/ W_advance
    \/ F_load
    \/ F_store
    \/ ReadBetween

SpecFlush == InitFlush /\ [][NextFlush]_vars

\* ------------------------------------ reading until empty: SpecLive
\* The producer makes whole calls of lf256fifo_write and may stop after any
\* of them; the consumer makes whole calls of lf256fifo_read, with *c = 0
\* before each, and does not stop: a read that can change the state is
\* eventually made.  There is no flush.

WriteLive == Write /\ UNCHANGED phase

ReadLive == lf256fifo_read(0) /\ UNCHANGED phase

NextLive ==
    \/ WriteLive
    \/ ReadLive

SpecLive == InitFlush /\ [][NextLive]_vars /\ WF_vars(ReadLive)

\* ------------------------------------ the adxl314 driver: SpecAdxl

\* Bit k of the byte x, and the C operators &, | and ~ on uint8_t values.
BitAt(x, k) == (x \div (2 ^ k)) % 2

And8Bits(x, y) ==
    LET b(k) == BitAt(x, k) * BitAt(y, k) * (2 ^ k)
    IN b(0) + b(1) + b(2) + b(3) + b(4) + b(5) + b(6) + b(7)

\* x & y for all pairs of bytes, computed once.
And8Table == [x \in 0..255 |-> [y \in 0..255 |-> And8Bits(x, y)]]

And8(x, y) == And8Table[x][y]

Or8(x, y) == x + y - And8(x, y)

Not8(x) == 255 - x

\* #define ADXL314_ADDR(x) ((x) & 0x3F)
ADXL314_ADDR(x) == And8(x, 63)

\* The register the accelerometer selects: over SPI the low six bits of the
\* command byte (bit 7 is the read flag, bit 6 the multi-byte flag), over
\* I2C the address byte itself.
DeviceAddr(comm_type, byte0) ==
    IF comm_type = ADXL314_SPI_COMM THEN byte0 % 64 ELSE byte0

\* adxl314_read_device_data(dev, base_address, 1, &read_data) by the driver
\* state d on the registers rg.  Over SPI there is one bus call, with result
\* r1; over I2C the address write (result r1) and, if that was 0, the read
\* (result r2).  data is read_data for a return of 0, which is the only case
\* in which the callers use it.
adxl314_read_device_data(d, rg, base_address, r1, r2) ==
    LET byte0 == IF d.comm_type = ADXL314_SPI_COMM
                 THEN Or8(ADXL314_SPI_READ, base_address)
                 ELSE base_address
        a == DeviceAddr(d.comm_type, byte0)
        ret0 == IF d.comm_type = ADXL314_SPI_COMM THEN r1
                ELSE IF r1 # 0 THEN r1
                ELSE r2
    IN [ret  |-> ret0,
        data |-> IF ret0 = 0 THEN rg[a] ELSE NoByte,
        bus  |-> << [kind |-> "rd", addr |-> a,
                     val |-> IF ret0 = 0 THEN rg[a] ELSE NoByte,
                     ret |-> ret0] >>]

\* adxl314_write_device_data(dev, base_address, 1, &v): one bus call with
\* result w.  A transfer that the bus layer reports as failed may still have
\* reached the register (landed).
adxl314_write_device_data(d, rg, base_address, v, w, landed) ==
    LET byte0 == IF d.comm_type = ADXL314_SPI_COMM
                 THEN Or8(ADXL314_SPI_WRITE, base_address)
                 ELSE base_address
        a == DeviceAddr(d.comm_type, byte0)
    IN [ret  |-> w,
        regs |-> IF w = 0 \/ landed THEN [rg EXCEPT ![a] = v] ELSE rg,
        bus  |-> << [kind |-> "wr", addr |-> a, val |-> v, ret |-> w] >>]

\* What the bus layer answers during one driver call: to the transfers of
\* a register read (r1, r2), and to the transfer of a register write (w,
\* landed).
ReadInputs == [r1 : BusResults, r2 : BusResults, w : {0}, landed : {FALSE}]
WriteInputs == [r1 : {0}, r2 : {0}, w : BusResults, landed : BOOLEAN]
BusInputs == [r1 : BusResults, r2 : BusResults, w : BusResults,
              landed : BOOLEAN]

\* The values an application stores in POWER_CTL by itself: nothing set,
\* everything set, and the four documented fields apart from MEASURE.
PowerCtlWrites == {0, 255, 55}

\* A slip in adxl314_control_reg_bit: the bit is assigned to reg_data
\* instead of being or-ed into it.
adxl314_control_reg_bit_assign(d, rg, base_address, action, modified_bit, in) ==
    LET rd == adxl314_read_device_data(d, rg, ADXL314_ADDR(base_address),
                                       in.r1, in.r2)
        reg_data == IF action = DISABLE_E
                    THEN And8(rd.data, Not8(modified_bit))
                    ELSE modified_bit
        wr == adxl314_write_device_data(d, rg, ADXL314_ADDR(base_address),
                                        reg_data, in.w, in.landed)
    IN IF rd.ret # 0
       THEN [ret |-> -EPIPE, regs |-> rg, bus |-> rd.bus]
       ELSE IF wr.ret # 0
       THEN [ret |-> -EPIPE, regs |-> wr.regs, bus |-> rd.bus \o wr.bus]
       ELSE [ret |-> wr.ret, regs |-> wr.regs, bus |-> rd.bus \o wr.bus]

\* A slip in adxl314_control_reg_bit: DISABLE_E masks with modified_bit
\* instead of its complement.
adxl314_control_reg_bit_nomask(d, rg, base_address, action, modified_bit, in) ==
    LET rd == adxl314_read_device_data(d, rg, ADXL314_ADDR(base_address),
                                       in.r1, in.r2)
        reg_data == IF action = DISABLE_E
                    THEN And8(rd.data, modified_bit)
                    ELSE Or8(rd.data, modified_bit)
        wr == adxl314_write_device_data(d, rg, ADXL314_ADDR(base_address),
                                        reg_data, in.w, in.landed)
    IN IF rd.ret # 0
       THEN [ret |-> -EPIPE, regs |-> rg, bus |-> rd.bus]
       ELSE IF wr.ret # 0
       THEN [ret |-> -EPIPE, regs |-> wr.regs, bus |-> rd.bus \o wr.bus]
       ELSE [ret |-> wr.ret, regs |-> wr.regs, bus |-> rd.bus \o wr.bus]

\* int adxl314_control_reg_bit(dev, base_address, action, modified_bit):
\* read the register, clear or set the bit, write the register back.
adxl314_control_reg_bit(d, rg, base_address, action, modified_bit, in) ==
    LET rd == adxl314_read_device_data(d, rg, ADXL314_ADDR(base_address),
                                       in.r1, in.r2)
        reg_data == IF action = DISABLE_E
                    THEN And8(rd.data, Not8(modified_bit))
                    ELSE Or8(rd.data, modified_bit)
        wr == adxl314_write_device_data(d, rg, ADXL314_ADDR(base_address),
                                        reg_data, in.w, in.landed)
    IN IF rd.ret # 0
       THEN [ret |-> -EPIPE, regs |-> rg, bus |-> rd.bus]
       ELSE IF wr.ret # 0
       THEN [ret |-> -EPIPE, regs |-> wr.regs, bus |-> rd.bus \o wr.bus]
       ELSE [ret |-> wr.ret, regs |-> wr.regs, bus |-> rd.bus \o wr.bus]

\* A register write is among the transfers b.
IssuedWrite(b) == \E i \in 1..Len(b) : b[i].kind = "wr"

\* What adxl314_set_op_mode(dev, m) returns and leaves behind, called with
\* the driver state d, the registers rg and the history value ls.
set_op_mode_result(d, rg, ls, m, in) ==
    IF m \notin {ADXL314_STDBY, ADXL314_MEAS}
    THEN [ret |-> -ENOSYS, regs |-> rg, dev |-> d, last_set |-> ls,
          bus |-> << >>]
    ELSE LET r == adxl314_control_reg_bit(
                      d, rg, ADXL314_ADDR(ADXL314_REG_POWER_CTL),
                      IF m = ADXL314_STDBY THEN DISABLE_E ELSE ENABLE_E,
                      ADXL314_POWER_CTL_MEASURE, in)
         IN IF r.ret # 0
            THEN [ret |-> -EPIPE, regs |-> r.regs, dev |-> d,
                  last_set |-> IF IssuedWrite(r.bus) THEN NoMode ELSE ls,
                  bus |-> r.bus]
            ELSE [ret |-> r.ret, regs |-> r.regs,
                  dev |-> [d EXCEPT !.op_mode = m],
                  last_set |-> m, bus |-> r.bus]

\* int adxl314_set_op_mode(dev, op_mode), with op_mode = m.
adxl314_set_op_mode(m, in) ==
    /\ op' = "set_op_mode"
    /\ m_in' = m
    /\ m_out' = NoMode
    /\ bit_in' = NoBitArgs
    /\ \E s \in {set_op_mode_result(dev, regs, last_set, m, in)} :
          /\ ret' = s.ret
          /\ regs' = s.regs
          /\ dev' = s.dev
          /\ last_set' = s.last_set
          /\ bus' = s.bus
    /\ UNCHANGED <<fifo, c_in, c_out, history, alloc, flushv, drv, phase, pcW, pcR>>

\* int adxl314_get_op_mode(dev, &op_mode).
adxl314_get_op_mode(in) ==
    LET r == adxl314_read_device_data(
                 dev, regs, ADXL314_ADDR(ADXL314_REG_POWER_CTL), in.r1, in.r2)
    IN /\ op' = "get_op_mode"
       /\ m_in' = NoMode
       /\ bit_in' = NoBitArgs
       /\ bus' = r.bus
       /\ IF r.ret # 0
          THEN /\ ret' = -EPIPE
               /\ m_out' = NoMode
          ELSE /\ ret' = r.ret
               /\ m_out' = IF And8(r.data, ADXL314_POWER_CTL_MEASURE) # 0
                           THEN ADXL314_MEAS
                           ELSE ADXL314_STDBY
       /\ UNCHANGED <<fifo, c_in, c_out, history, alloc, flushv, drv, phase, pcW, pcR,
                      regs, dev, last_set>>

\* The application calls adxl314_write_device_data itself, to store v in
\* POWER_CTL.
Call_write_device_data(v, in) ==
    LET r == adxl314_write_device_data(
                 dev, regs, ADXL314_ADDR(ADXL314_REG_POWER_CTL), v,
                 in.w, in.landed)
    IN /\ op' = "write_device_data"
       /\ bit_in' = NoBitArgs
       /\ ret' = r.ret
       /\ regs' = r.regs
       /\ bus' = r.bus
       /\ m_in' = NoMode
       /\ m_out' = NoMode
       /\ last_set' = NoMode
       /\ UNCHANGED <<fifo, c_in, c_out, history, alloc, flushv, drv, phase, pcW, pcR,
                      dev>>

\* ------------------------------ register bits: SpecBit and SpecSleep

\* What the bus layer answers during a register read followed by a
\* register write, one case for each place where the pair can fail.
AllOk == [r1 |-> 0, r2 |-> 0, w |-> 0, landed |-> FALSE]
StepInputs ==
    {AllOk,
     [r1 |-> -1, r2 |-> 0, w |-> 0, landed |-> FALSE],
     [r1 |-> 0, r2 |-> -1, w |-> 0, landed |-> FALSE],
     [r1 |-> 0, r2 |-> 0, w |-> -1, landed |-> FALSE],
     [r1 |-> 0, r2 |-> 0, w |-> -1, landed |-> TRUE]}

\* The application calls adxl314_control_reg_bit itself, on POWER_CTL.
Call_control_reg_bit(action, modified_bit, in) ==
    /\ op' = "control_reg_bit"
    /\ bit_in' = [action |-> action, modified_bit |-> modified_bit]
    /\ m_in' = NoMode
    /\ m_out' = NoMode
    /\ \E r \in {adxl314_control_reg_bit(
                     dev, regs, ADXL314_REG_POWER_CTL, action, modified_bit,
                     in)} :
          /\ ret' = r.ret
          /\ regs' = r.regs
          /\ bus' = r.bus
          /\ last_set' = IF IssuedWrite(r.bus) THEN NoMode ELSE last_set
    /\ UNCHANGED <<fifo, c_in, c_out, history, alloc, flushv, drv, phase, pcW, pcR,
                   dev>>

\* The return of adxl314_autosleep: its result and what it leaves behind.
AutosleepReturn(r, rg, d, ls, b) ==
    /\ ret' = r
    /\ regs' = rg
    /\ dev' = d
    /\ last_set' = ls
    /\ bus' = b

\* A slip in adxl314_autosleep: the result of adxl314_control_reg_bit is not
\* tested.
adxl314_autosleep_unchecked(enable, in1, in2, in3) ==
    /\ op' = "autosleep"
    /\ bit_in' = [action |-> enable,
                  modified_bit |-> ADXL314_POWER_CTL_AUTO_SLEEP]
    /\ m_in' = NoMode
    /\ m_out' = NoMode
    /\ \E s1 \in {set_op_mode_result(dev, regs, last_set, ADXL314_STDBY, in1)} :
          IF s1.ret # 0
          THEN AutosleepReturn(-EPIPE, s1.regs, s1.dev, s1.last_set, s1.bus)
          ELSE \E s2 \in {adxl314_control_reg_bit(
                              s1.dev, s1.regs,
                              ADXL314_ADDR(ADXL314_REG_POWER_CTL), enable,
                              ADXL314_POWER_CTL_AUTO_SLEEP, in2)} :
               \E s3 \in {set_op_mode_result(
                              s1.dev, s2.regs,
                              IF IssuedWrite(s2.bus) THEN NoMode
                              ELSE s1.last_set,
                              ADXL314_MEAS, in3)} :
                    AutosleepReturn(IF s3.ret # 0 THEN -EPIPE ELSE s3.ret,
                                    s3.regs, s3.dev, s3.last_set,
                                    s1.bus \o s2.bus \o s3.bus)
    /\ UNCHANGED <<fifo, c_in, c_out, history, alloc, flushv, drv, phase, pcW, pcR>>

\* int adxl314_autosleep(dev, enable).  in1, in2 and in3 are the answers of
\* the bus layer to the register accesses of the three steps.
adxl314_autosleep(enable, in1, in2, in3) ==
    /\ op' = "autosleep"
    /\ bit_in' = [action |-> enable,
                  modified_bit |-> ADXL314_POWER_CTL_AUTO_SLEEP]
    /\ m_in' = NoMode
    /\ m_out' = NoMode
    /\ \E s1 \in {set_op_mode_result(dev, regs, last_set, ADXL314_STDBY, in1)} :
          IF s1.ret # 0
          THEN AutosleepReturn(-EPIPE, s1.regs, s1.dev, s1.last_set, s1.bus)
          ELSE \E s2 \in {adxl314_control_reg_bit(
                              s1.dev, s1.regs,
                              ADXL314_ADDR(ADXL314_REG_POWER_CTL), enable,
                              ADXL314_POWER_CTL_AUTO_SLEEP, in2)} :
               IF s2.ret # 0
               THEN AutosleepReturn(-EPIPE, s2.regs, s1.dev,
                                    IF IssuedWrite(s2.bus) THEN NoMode
                                    ELSE s1.last_set,
                                    s1.bus \o s2.bus)
               ELSE \E s3 \in {set_op_mode_result(
                                   s1.dev, s2.regs, NoMode, ADXL314_MEAS,
                                   in3)} :
                    AutosleepReturn(IF s3.ret # 0 THEN -EPIPE ELSE s3.ret,
                                    s3.regs, s3.dev, s3.last_set,
                                    s1.bus \o s2.bus \o s3.bus)
    /\ UNCHANGED <<fifo, c_in, c_out, history, alloc, flushv, drv, phase, pcW, pcR>>

\* The values of the argument action: the two of enum bit_action, and one
\* that the enum does not have.
ActionArgs == {DISABLE_E, ENABLE_E, 2}

\* The values of the argument modified_bit: one bit, and a mask of two.
BitArgs == {ADXL314_POWER_CTL_MEASURE,
            ADXL314_POWER_CTL_AUTO_SLEEP,
            ADXL314_POWER_CTL_LINK + ADXL314_POWER_CTL_SLEEP}

ControlRegBit ==
    \E action \in ActionArgs, modified_bit \in BitArgs, in \in StepInputs :
        Call_control_reg_bit(action, modified_bit, in)

NextBit ==
    \/ ControlRegBit

\* The mode values an application passes: the two of the enum, and one
\* that the enum does not have.
ModeArgs == {ADXL314_STDBY, ADXL314_MEAS, 2}

\* What POWER_CTL may hold when the driver takes the device over: any
\* setting of the six bits that adxl314.h names (LINK, AUTO_SLEEP, MEASURE,
\* SLEEP, WAKEUP), or all eight bits set.
PowerCtlStart == (0..63) \cup {255}

\* The state after adxl314_init returned 0: calloc left dev->op_mode 0, the
\* bus is the one the application asked for, and POWER_CTL holds whatever
\* the accelerometer was left with.  No fifo is in use.
InitAdxl ==
    /\ NoQueue
    /\ NoFlush
    /\ stream = 0
    /\ regs \in [RegAddrs -> PowerCtlStart]
    /\ dev \in [comm_type : {ADXL314_SPI_COMM, ADXL314_I2C_COMM},
                op_mode : {ADXL314_STDBY}]
    /\ m_in = NoMode
    /\ m_out = NoMode
    /\ bus = << >>
    /\ last_set = NoMode
    /\ bit_in = NoBitArgs
    /\ cache = ZeroCache
    /\ device = DevPtr
    /\ devheap = {DevBlock, ComDesc}
    /\ arg_in = NoByte
    /\ acc = NoAccess

SetOpMode == \E m \in ModeArgs, in \in BusInputs : adxl314_set_op_mode(m, in)

GetOpMode == \E in \in ReadInputs : adxl314_get_op_mode(in)

WritePowerCtl ==
    \E v \in PowerCtlWrites, in \in WriteInputs :
        Call_write_device_data(v, in)

NextAdxl ==
    \/ SetOpMode
    \/ GetOpMode
    \/ WritePowerCtl

SpecAdxl == InitAdxl /\ [][NextAdxl]_vars

\* Calls of adxl314_control_reg_bit on POWER_CTL.
SpecBit == InitAdxl /\ [][NextBit]_vars

\* The answers of the bus layer to the three steps of adxl314_autosleep: a
\* step after a failed one is not made and has the answer AllOk.
AutosleepInputs ==
    {i \in StepInputs \X StepInputs \X StepInputs :
        /\ (i[1] # AllOk => i[2] = AllOk /\ i[3] = AllOk)
        /\ (i[2] # AllOk => i[3] = AllOk)}

Autosleep ==
    \E enable \in {DISABLE_E, ENABLE_E}, i \in AutosleepInputs :
        adxl314_autosleep(enable, i[1], i[2], i[3])

\* A call of adxl314_set_op_mode that the bus does not fail.
SetOpModeOk ==
    \E m \in {ADXL314_STDBY, ADXL314_MEAS} : adxl314_set_op_mode(m, AllOk)

NextSleep ==
    \/ Autosleep
    \/ SetOpModeOk

\* Calls of adxl314_autosleep, from standby and from measurement mode.
SpecSleep == InitAdxl /\ [][NextSleep]_vars

\* ------------------------------------------------------------ properties

\* The spec's arithmetic: the slot after x, modulo N = 256.
NextSlot(x) == (x + 1) % DataSize

\* The spec's full: ((tail + 1) mod N) == head.
SpecFull == NextSlot(fempty) = ffilled

\* The spec's number of pending bytes, (tail - head) mod N.
SpecCount == (fempty + DataSize - ffilled) % DataSize

\* The buffer after the first n bytes of the stream were stored from slot 0.
Filled(n) ==
    [i \in 0..(DataSize - 1) |-> IF i < n THEN Payload(stream, i) ELSE 0]

\* C1: from a fresh queue, with writes only: the first 255 writes succeed,
\* is_full is true exactly after the 255th, and the 256th write is rejected
\* and changes nothing (so no 256th byte is ever accepted, head stays 0, tail
\* is the number of accepted bytes and the buffer holds exactly those bytes).
C1_FillToCapacity ==
    writesOnly =>
        /\ accepted <= DataSize - 1
        /\ (op = "write" /\ ret = -1 => accepted = DataSize - 1)
        /\ (op = "is_full" => (ret = 1 <=> accepted = DataSize - 1))
        /\ ffilled = 0
        /\ fempty = accepted
        /\ data = Filled(accepted)

\* C2: is_full returns true if and only if (tail + 1) mod 256 = head.
C2_IsFullIffWrapped ==
    op = "is_full" => (ret = 1 <=> NextSlot(fempty) = ffilled)

\* C3: with one producer writing and one consumer reading, interleaved, the
\* bytes returned by successful reads are a prefix of the bytes accepted by
\* successful writes: the n-th byte read is the n-th byte accepted.
C3_ReadsArePrefixOfWrites ==
    /\ taken <= accepted
    /\ (pcR = "idle" /\ taken > 0 => c_out = Payload(stream, taken - 1))
    /\ (pcR = "advance" => /\ taken < accepted
                           /\ c_out = Payload(stream, taken))

\* C4: k <= 255 bytes written with nothing pending, then read with no write
\* in between: every write and each of the k reads succeeds, the reads
\* return the bytes in the order written, the queue is empty afterwards and
\* the read made with nothing pending returns Empty.
C4_FillThenDrain ==
    /\ (op = "write" => ret = 0)
    /\ (op = "read" /\ ret = 0 => /\ taken <= accepted
                                  /\ c_out = Payload(stream, taken - 1))
    /\ (op = "read" /\ ret = -1 => Pending = 0)
    /\ (op = "read" /\ phase = "fill" => ret = -1)
    /\ (Pending = 0 => lf256fifo_is_empty(fempty, ffilled))

\* C4's case: the first read of a run of 255 bytes that was written from a
\* common index other than 0, the tail having wrapped past 255.
C4_Witness ==
    /\ phase = "drain"
    /\ op = "read"
    /\ ret = 0
    /\ Pending = DataSize - 2
    /\ fempty < ffilled

\* C5: the number of bytes accepted and neither returned nor discarded is
\* (tail - head) mod 256, and lies in 0..255.
C5_PendingCount ==
    /\ Pending = SpecCount
    /\ Pending \in 0..(DataSize - 1)

\* C6: a write on a full queue returns -1 and changes neither head, tail nor
\* any buffer slot.
C6_FullWriteRejected ==
    [][(op' = "write" /\ SpecFull) => (ret' = -1 /\ UNCHANGED fifo)]_vars

\* C7: a read on an empty queue returns -1 and changes neither head, tail,
\* the buffer nor the caller's byte.
C7_EmptyReadRejected ==
    [][(op' = "read" /\ ffilled = fempty)
          => (ret' = -1 /\ UNCHANGED fifo /\ c_out' = c_in')]_vars

\* C7's case: a read right after init, the caller's byte still holding 255.
C7_Witness ==
    /\ op = "read"
    /\ ret = -1
    /\ accepted = 0
    /\ c_in = 255
    /\ c_out = 255

\* C8: a write on a queue that is not full returns 0, stores the byte at
\* the old tail, advances tail by one modulo 256 and changes neither head
\* nor any other slot.
C8_WriteStores ==
    [][(op' = "write" /\ ~SpecFull)
          => /\ ret' = 0
             /\ data' = [data EXCEPT ![fempty] = c_in']
             /\ fempty' = NextSlot(fempty)
             /\ ffilled' = ffilled]_vars

\* C8's case: an accepted write into slot 255 of a queue that holds bytes,
\* after which tail is 0.
C8_Witness ==
    /\ op = "write"
    /\ ret = 0
    /\ fempty = 0
    /\ ffilled > 1
    /\ data[DataSize - 1] = c_in

\* C9: a read on a queue that is not empty returns 0 with the byte at the
\* old head, advances head by one modulo 256 and changes neither tail nor
\* the buffer.
C9_ReadReturnsHead ==
    [][(op' = "read" /\ ffilled # fempty)
          => /\ ret' = 0
             /\ c_out' = data[ffilled]
             /\ ffilled' = NextSlot(ffilled)
             /\ fempty' = fempty
             /\ data' = data]_vars

\* C9's case: a successful read of slot 255, after which head is 0.
C9_Witness ==
    /\ op = "read"
    /\ ret = 0
    /\ ffilled = 0
    /\ taken = DataSize
    /\ c_out = data[DataSize - 1]

\* C10: is_empty returns true if and only if head = tail.
C10_IsEmptyIffEqual ==
    op = "is_empty" => (ret = 1 <=> ffilled = fempty)

\* C10's case: is_empty answering false for a queue whose tail has wrapped
\* below its head.
C10_Witness ==
    /\ op = "is_empty"
    /\ ret = 0
    /\ fempty < ffilled

\* C11: after a flush (no write running beside it), from an empty, a partly
\* filled or a full queue alike, is_empty is true and every read returns
\* Empty, until a write is accepted.
C11_FlushEmpties ==
    sinceFlush =>
        /\ lf256fifo_is_empty(fempty, ffilled)
        /\ ffilled = fempty
        /\ (op = "is_empty" => ret = 1)
        /\ (op = "read" => ret = -1 /\ c_out = c_in)

\* C11's case: a read that returned Empty after a flush that discarded the
\* 255 bytes of a full queue.
C11_Witness ==
    /\ sinceFlush
    /\ op = "read"
    /\ ret = -1
    /\ accepted = DataSize - 1
    /\ ffilled = DataSize - 1

\* C12: the queue moves between Empty, PartiallyFilled(k) and Full: an
\* accepted write raises the pending count by one and does not end in Empty,
\* a successful read lowers it by one and does not end in Full, a write is
\* rejected only in Full, a read only in Empty, and flush ends in Empty.
C12_StateMachine ==
    [][/\ (op' = "write" /\ ret' = 0
              => SpecCount' = SpecCount + 1 /\ SpecCount' # 0)
       /\ (op' = "read" /\ ret' = 0
              => SpecCount' = SpecCount - 1 /\ ~SpecFull')
       /\ (op' = "write" /\ ret' = -1 => SpecFull)
       /\ (op' = "read" /\ ret' = -1 => SpecCount = 0)
       /\ (op' = "flush" => SpecCount' = 0)]_vars

\* C13: a successful init hands back a queue with head = tail = 0, for which
\* is_empty is true and is_full is false (the state Empty).
C13_InitEmpty ==
    /\ (op = "init" /\ ret = 0
           => /\ handle = "b"
              /\ ffilled = 0
              /\ fempty = 0
              /\ lf256fifo_is_empty(fempty, ffilled)
              /\ ~lf256fifo_is_full(fempty, ffilled)
              /\ SpecCount = 0)
    /\ (accepted = 0 /\ op = "is_empty" => ret = 1)
    /\ (accepted = 0 /\ op = "is_full" => ret = 0)

\* C13's case: is_empty answering true on the queue that a successful init
\* handed back, before any write.
C13_Witness ==
    /\ handle = "b"
    /\ init_in = [fifo |-> "loc", okB |-> TRUE, okData |-> TRUE]
    /\ accepted = 0
    /\ writesOnly
    /\ op = "is_empty"
    /\ ret = 1

\* C14: init returns -EINVAL for a NULL argument, without calling calloc;
\* -ENOMEM when the first or the second calloc fails; and 0 only if both
\* succeeded.
C14_InitErrors ==
    op = "init" =>
        /\ (init_in.fifo = "NULL" => ret = -EINVAL /\ callocs = 0 /\ heap = {})
        /\ (init_in.fifo # "NULL" /\ ~init_in.okB => ret = -ENOMEM)
        /\ (init_in.fifo # "NULL" /\ init_in.okB /\ ~init_in.okData
               => ret = -ENOMEM)
        /\ (ret = 0 => /\ init_in.fifo # "NULL"
                       /\ init_in.okB
                       /\ init_in.okData
                       /\ heap = {"b", "data"})
        /\ ret \in {0, -EINVAL, -ENOMEM}

\* C14's case: an init whose first calloc succeeded and whose second failed.
C14_Witness ==
    /\ op = "init"
    /\ init_in = [fifo |-> "loc", okB |-> TRUE, okData |-> FALSE]
    /\ ret = -ENOMEM
    /\ callocs = 2

\* The order of the positions inside one call of write and of read.
WriteOrder == {<<"idle", "store">>, <<"store", "advance">>, <<"advance", "idle">>}
ReadOrder == {<<"idle", "load">>, <<"load", "advance">>, <<"advance", "idle">>}

\* C15: read and write are wait-free.  Wherever the other context stands,
\* the next step of a call can be taken; a call passes through at most three
\* positions, never back to an earlier one, and leaves with a result value.
C15_WaitFree ==
    [][/\ (pcW = "store" => ENABLED W_store)
       /\ (pcW = "advance" => ENABLED W_advance)
       /\ (pcW = "idle" /\ accepted < MaxWrites => ENABLED W_check)
       /\ (pcR = "idle" => ENABLED R_check)
       /\ (pcR = "load" => ENABLED R_load)
       /\ (pcR = "advance" => ENABLED R_advance)
       /\ (pcW' # pcW => <<pcW, pcW'>> \in WriteOrder)
       /\ (pcR' # pcR => <<pcR, pcR'>> \in ReadOrder)
       /\ (pcW = "advance" /\ pcW' = "idle" => op' = "write" /\ ret' = 0)
       /\ (pcR = "advance" /\ pcR' = "idle" => op' = "read" /\ ret' = 0)
       /\ (pcW = "idle" /\ pcW' = "idle" /\ op' = "write" => ret' \in {0, -1})
       /\ (pcR = "idle" /\ pcR' = "idle" /\ op' = "read" => ret' \in {0, -1})]_vars

\* C15's case: the consumer completes its second read while the producer
\* stands stalled in the middle of a write, between store and index update.
C15_Witness ==
    /\ pcW = "advance"
    /\ pcR = "idle"
    /\ op = "read"
    /\ ret = 0
    /\ taken > 1

\* C16: while never more than 254 bytes are pending, every read returns the
\* next byte in write order and no write is rejected; head and tail are the
\* numbers of bytes read and written modulo 256, across the wrap from 255
\* to 0.
C16_WrapIntegrity ==
    /\ taken <= accepted
    /\ Pending <= DataSize - 2
    /\ ffilled = taken % DataSize
    /\ fempty = accepted % DataSize
    /\ (op = "write" => ret = 0)
    /\ (pcR = "idle" /\ taken > 0 => c_out = Payload(stream, taken - 1))
    /\ (pcR = "advance" => /\ taken < accepted
                           /\ c_out = Payload(stream, taken))

\* C16's case: the 257th byte has been read, after both indices wrapped.
C16_Witness ==
    /\ pcR = "idle"
    /\ op = "read"
    /\ ret = 0
    /\ taken = DataSize + 1
    /\ ffilled = 1
    /\ c_out = Payload(stream, DataSize)

\* The mode bit of a POWER_CTL value, and the value without it.
ModeBit(x) == (x \div 8) % 2
OtherBits(x) == x - 8 * ModeBit(x)

\* C17: a set_op_mode(m) that returns 0, m being STDBY or MEAS, leaves
\* dev->op_mode = m, the MEASURE bit of POWER_CTL equal to m and the other
\* bits of POWER_CTL as they were; and as long as POWER_CTL is not written
\* otherwise, dev->op_mode stays m and a get_op_mode that returns 0
\* reports m.
C17_SetThenGet ==
    [][/\ (op' = "set_op_mode" /\ ret' = 0
              => /\ m_in' \in {ADXL314_STDBY, ADXL314_MEAS}
                 /\ last_set' = m_in'
                 /\ OtherBits(regs'[ADXL314_REG_POWER_CTL])
                      = OtherBits(regs[ADXL314_REG_POWER_CTL]))
       /\ (last_set' # NoMode
              => /\ dev'.op_mode = last_set'
                 /\ ModeBit(regs'[ADXL314_REG_POWER_CTL]) = last_set'
                 /\ (op' = "get_op_mode" /\ ret' = 0 => m_out' = last_set'))]_vars

\* C17's case: over I2C, measurement mode was set on a register whose other
\* bits are all 1, and get_op_mode has reported it.
C17_Witness ==
    /\ op = "get_op_mode"
    /\ ret = 0
    /\ last_set = ADXL314_MEAS
    /\ m_out = ADXL314_MEAS
    /\ dev.op_mode = ADXL314_MEAS
    /\ dev.comm_type = ADXL314_I2C_COMM
    /\ regs[ADXL314_REG_POWER_CTL] = 255

\* C18: a read made while the queue is full succeeds and leaves is_full
\* false, and the write that follows a successful read succeeds.
C18_FullReadWrite ==
    [][/\ (SpecFull /\ op' = "read"
              => /\ ret' = 0
                 /\ ~SpecFull'
                 /\ ~lf256fifo_is_full(fempty', ffilled'))
       /\ (op = "read" /\ ret = 0 /\ op' = "write" => ret' = 0)]_vars

\* C18's case: a successful read from a queue for which is_full was true
\* (tail 0, head 1), leaving 254 bytes pending.
C18_Witness ==
    /\ op = "read"
    /\ ret = 0
    /\ fempty = 0
    /\ ffilled = 2
    /\ Pending = DataSize - 2

\* C19: at least one of the 256 slots is unused, and every byte accepted and
\* neither returned nor discarded is still in its slot (no accepted write
\* stored over it).
C19_SpareSlot ==
    /\ Pending < DataSize
    /\ \A i \in taken..(accepted - 1) : data[i % DataSize] = Payload(stream, i)

\* C20: with producer and consumer interleaved at their loads and stores,
\* once the consumer has seen head # tail the slot at head holds the oldest
\* byte accepted and not yet read, and that is the byte read returns.
C20_StoreBeforeAdvance ==
    /\ (pcR = "load" => /\ taken < accepted
                        /\ data[ffilled] = Payload(stream, taken))
    /\ (pcR = "advance" => /\ taken < accepted
                           /\ c_out = Payload(stream, taken))
    /\ (ffilled # fempty => data[ffilled] = Payload(stream, taken))

\* C21: head changes only in read and flush, tail and the buffer only in
\* write; read and flush leave tail and the buffer alone, write leaves head
\* alone.
C21_SingleWriter ==
    [][/\ (ffilled' # ffilled => op' \in {"read", "flush"})
       /\ (fempty' # fempty \/ data' # data => op' = "write")
       /\ (op' \in {"read", "flush"} => fempty' = fempty /\ data' = data)
       /\ (op' = "write" => ffilled' = ffilled)]_vars

\* C21's case: a read has moved head after two writes had moved tail.
C21_Witness ==
    /\ op = "read"
    /\ ret = 0
    /\ ffilled = 1
    /\ fempty = 2
    /\ data[1] = Payload(stream, 1)

\* C22 as stated: flush empties the queue by a write to tail, so a flush of
\* a queue that is not empty changes tail.
C22_FlushWritesTail ==
    [][op' = "flush" /\ ffilled # fempty => fempty' # fempty]_vars

\* C22, amended: flush writes head, the index the consumer owns, with the
\* value of tail, which it only reads; tail and the buffer are as before.
C22_FlushWritesHead ==
    [][op' = "flush" => /\ ffilled' = fempty
                        /\ fempty' = fempty
                        /\ data' = data]_vars

\* C22's case: a flush has run after three writes and left head at tail, 3.
C22_Witness ==
    /\ op = "flush"
    /\ accepted = 3
    /\ taken = 3
    /\ writesOnly = FALSE
    /\ ffilled = 3
    /\ fempty = 3

\* C23: head and tail stay in 0..255, the buffer has the slots 0..255 (so
\* every data[head] and data[tail] is inside it), and the increment of an
\* index that is 255 gives 0.
C23_IndexRange ==
    [][/\ ffilled \in 0..(DataSize - 1) /\ ffilled' \in 0..(DataSize - 1)
       /\ fempty \in 0..(DataSize - 1) /\ fempty' \in 0..(DataSize - 1)
       /\ DOMAIN data' = 0..(DataSize - 1)
       /\ (op' = "write" /\ ret' = 0
              => fempty' = IF fempty = DataSize - 1 THEN 0 ELSE fempty + 1)
       /\ (op' = "read" /\ ret' = 0
              => ffilled' = IF ffilled = DataSize - 1 THEN 0 ELSE ffilled + 1)]_vars

\* C23's case: the read that takes head from 255 to 0, after tail made the
\* same step.
C23_Witness ==
    /\ op = "read"
    /\ ret = 0
    /\ ffilled = 0
    /\ taken = DataSize
    /\ fempty = 1
    /\ accepted = DataSize + 1

\* C24: a call of is_full or is_empty changes neither index nor any slot,
\* and the second of two such calls in a row returns what the first did.
C24_Pure ==
    [][op' \in {"is_full", "is_empty"}
          => /\ UNCHANGED fifo
             /\ (op = op' => ret' = ret)]_vars

\* C24's case: is_full has answered true, with 255 bytes pending behind
\* head 1.
C24_Witness ==
    /\ op = "is_full"
    /\ ret = 1
    /\ ffilled = 1
    /\ fempty = 0
    /\ Pending = DataSize - 1

\* C25: a write by the producer never makes is_empty true, and a read or a
\* flush by the consumer never makes is_full true.
C25_CheckThenAct ==
    [][/\ (op' = "write" /\ ~lf256fifo_is_empty(fempty, ffilled)
              => ~lf256fifo_is_empty(fempty', ffilled'))
       /\ (op' \in {"read", "flush"} /\ ~lf256fifo_is_full(fempty, ffilled)
              => ~lf256fifo_is_full(fempty', ffilled'))]_vars

\* C26: a flush that ran concurrently with at most one accepted write ends
\* as one of the two sequential orders does.  Head is the tail the flush
\* loaded; the queue is empty if no write returned during the flush, and
\* holds exactly that write's byte if one did; head and tail are the counts
\* of bytes taken and accepted modulo 256; and the read that follows the
\* flush returns no byte accepted before the flush began.
C26_FlushWriteRace ==
    [][/\ (pcR = "flush" /\ pcR' = "idle"
              => /\ ffilled' = fl_tail
                 /\ Pending' \in {0, 1}
                 /\ Pending' = accepted - fl_mark
                 /\ ffilled' = taken' % DataSize
                 /\ fempty' = accepted' % DataSize
                 /\ SpecCount' = Pending'
                 /\ (Pending' = 0 => lf256fifo_is_empty(fempty', ffilled'))
                 /\ (Pending' = 1 => /\ fempty' = NextSlot(ffilled')
                                     /\ data'[ffilled'] = Payload(stream, taken')))
       /\ (op = "flush" /\ op' = "read" /\ ret' = 0
              => c_out' = Payload(stream, taken) /\ Pending > 0)
       /\ (op = "flush" /\ op' = "read" /\ ret' = -1 => Pending = 0)]_vars

\* C26's case: the flush has returned while the fourth write stands between
\* its store and its update of tail.
C26_Witness ==
    /\ op = "flush"
    /\ pcR = "idle"
    /\ pcW = "advance"
    /\ accepted = 3
    /\ taken = 3
    /\ ffilled = 3
    /\ fempty = 3
    /\ data[3] = Payload(stream, 3)

\* C27: with the producer stopping and the consumer going on to read, from
\* some point on the queue is empty and every byte that write accepted has
\* been returned by read.
C27_DrainsToEmpty ==
    <>[](lf256fifo_is_empty(fempty, ffilled) /\ taken = accepted)

\* C28: after an init that failed nothing is allocated and the caller's
\* pointer is not assigned, also when only the second calloc failed; the
\* pointer is assigned only together with both blocks.
C28_FailedInitLeavesNothing ==
    /\ (op = "init" /\ ret # 0 => /\ heap = {}
                                  /\ handle = "none"
                                  /\ data = << >>)
    /\ (handle = "none" => heap = {})
    /\ (handle # "none" => handle = "b" /\ heap = {"b", "data"})

\* C28's case: the second calloc has failed, the first block is freed again.
C28_Witness ==
    /\ op = "init"
    /\ ret = -ENOMEM
    /\ init_in.okB
    /\ ~init_in.okData
    /\ heap = {}
    /\ handle = "none"

\* C29: a call of adxl314_control_reg_bit reads the register first and, only
\* if the read succeeded, writes it once; the value written has the bits of
\* modified_bit cleared for DISABLE_E and set otherwise, and every other bit
\* as read; the call returns -EPIPE if the read or the write failed and 0 if
\* neither did.
C29_ReadModifyWrite ==
    op = "control_reg_bit" =>
        /\ Len(bus) \in {1, 2}
        /\ bus[1].kind = "rd"
        /\ bus[1].addr = ADXL314_REG_POWER_CTL
        /\ (bus[1].ret # 0 => Len(bus) = 1 /\ ret = -EPIPE)
        /\ (bus[1].ret = 0 =>
              /\ Len(bus) = 2
              /\ bus[2].kind = "wr"
              /\ bus[2].addr = bus[1].addr
              /\ \A k \in 0..7 :
                    BitAt(bus[2].val, k) =
                        IF BitAt(bit_in.modified_bit, k) = 1
                        THEN (IF bit_in.action = DISABLE_E THEN 0 ELSE 1)
                        ELSE BitAt(bus[1].val, k)
              /\ (bus[2].ret # 0 => ret = -EPIPE)
              /\ (bus[2].ret = 0 => /\ ret = 0
                                    /\ regs[ADXL314_REG_POWER_CTL] = bus[2].val))

\* C29's case: LINK and SLEEP were cleared in a register that held 0x3F.
C29_Witness ==
    /\ op = "control_reg_bit"
    /\ ret = 0
    /\ bit_in = [action |-> DISABLE_E,
                 modified_bit |-> ADXL314_POWER_CTL_LINK + ADXL314_POWER_CTL_SLEEP]
    /\ bus[1].val = 63
    /\ regs[ADXL314_REG_POWER_CTL] = 27

\* The register writes among the transfers b, in their order.
WritesOf(b) == SelectSeq(b, LAMBDA e : e.kind = "wr")

DriverAddrs ==
    {ADXL314_DEVID_AD, ADXL314_REG_OFS_AXIS(0), ADXL314_REG_OFS_AXIS(1),
     ADXL314_REG_OFS_AXIS(2), ADXL314_REG_BW_RATE, ADXL314_REG_POWER_CTL,
     ADXL314_REG_DATA_AXIS(0), ADXL314_REG_FIFO_CTL, ADXL314_REG_FIFO_STATUS}

\* The lowest bit that is set in the mask.
LowBit(mask) == CHOOSE b \in {2 ^ k : k \in 0..7} :
                    /\ And8(mask, b) = b
                    /\ \A c \in {2 ^ k : k \in 0..7} :
                          And8(mask, c) = c => b <= c

\* no_os_field_prep(mask, val), as adxl314_reg_write_msk receives it in its
\* uint8_t parameter data: val shifted to the place of the mask's lowest
\* bit, and masked.
no_os_field_prep(mask, val) == And8((val * LowBit(mask)) % 256, mask)

\* int adxl314_reg_write_msk(dev, reg_addr, data, mask): read the register,
\* clear the bits of mask, or data in, write the register back.
adxl314_reg_write_msk(d, rg, reg_addr, value, mask, in) ==
    LET rd == adxl314_read_device_data(d, rg, ADXL314_ADDR(reg_addr),
                                       in.r1, in.r2)
        reg_data == Or8(And8(rd.data, Not8(mask)), value)
        wr == adxl314_write_device_data(d, rg, ADXL314_ADDR(reg_addr),
                                        reg_data, in.w, in.landed)
    IN IF rd.ret # 0
       THEN [ret |-> rd.ret, regs |-> rg, bus |-> rd.bus]
       ELSE [ret |-> wr.ret, regs |-> wr.regs, bus |-> rd.bus \o wr.bus]

\* int adxl314_set_fifo_samples(dev, samples)
adxl314_set_fifo_samples(samples, in) ==
    /\ op' = "set_fifo_samples"
    /\ arg_in' = samples
    /\ m_in' = NoMode
    /\ m_out' = NoMode
    /\ bit_in' = NoBitArgs
    /\ IF samples > ADXL314_MAX_FIFO_SAMPLES_VAL
       THEN /\ ret' = -EINVAL
            /\ bus' = << >>
            /\ UNCHANGED <<regs, cache>>
       ELSE \E r \in {adxl314_reg_write_msk(
                          dev, regs, ADXL314_ADDR(ADXL314_REG_FIFO_CTL),
                          no_os_field_prep(ADXL314_REG_FIFO_CTL_SAMPLES_MSK,
                                           samples),
                          ADXL314_REG_FIFO_CTL_SAMPLES_MSK, in)} :
               /\ ret' = r.ret
               /\ bus' = r.bus
               /\ regs' = r.regs
               /\ cache' = IF r.ret # 0 THEN cache
                           ELSE [cache EXCEPT !.fifo_samples = samples]
    /\ UNCHANGED <<fifo, c_in, c_out, history, alloc, flushv, phase, pcW, pcR,
                   dev, last_set, device, devheap, acc>>

\* The values of the argument samples: inside the five bits of the field,
\* above them and accepted, and rejected.
SamplesArgs == {0, 1, 31, 32, 33, ADXL314_MAX_FIFO_SAMPLES_VAL,
                ADXL314_MAX_FIFO_SAMPLES_VAL + 1, 255}

\* What FIFO_CTL may hold when the driver starts.
FifoCtlStart == (0..63) \cup {128 + 17, 255}

\* dev->fifo_mode and dev->fifo_samples as adxl314_init caches them from
\* the value v of FIFO_CTL.
CacheOf(v) ==
    [ZeroCache EXCEPT
        !.fifo_mode = And8(v, ADXL314_REG_FIFO_CTL_MODE_MSK) \div 64,
        !.fifo_samples = And8(v, ADXL314_REG_FIFO_CTL_SAMPLES_MSK)]

\* The state after adxl314_init returned 0 on a part whose FIFO_CTL and
\* FIFO_STATUS hold fc and fs.
InitDriver(fc, fs) ==
    /\ NoQueue
    /\ NoFlush
    /\ stream = 0
    /\ regs = [a \in DriverAddrs |->
                 IF a = ADXL314_REG_FIFO_CTL THEN fc
                 ELSE IF a = ADXL314_REG_FIFO_STATUS THEN fs
                 ELSE IF a = ADXL314_DEVID_AD THEN ADXL314_DEVID
                 ELSE 0]
    /\ dev \in [comm_type : {ADXL314_SPI_COMM, ADXL314_I2C_COMM},
                op_mode : {ADXL314_STDBY}]
    /\ m_in = NoMode
    /\ m_out = NoMode
    /\ bus = << >>
    /\ last_set = NoMode
    /\ bit_in = NoBitArgs
    /\ cache = CacheOf(fc)
    /\ device = DevPtr
    /\ devheap = {DevBlock, ComDesc}
    /\ arg_in = NoByte
    /\ acc = NoAccess

InitSamples == \E fc \in FifoCtlStart : InitDriver(fc, 0)

SetFifoSamples ==
    \E samples \in SamplesArgs, in \in StepInputs :
        adxl314_set_fifo_samples(samples, in)

NextSamples ==
    \/ SetFifoSamples

\* Calls of adxl314_set_fifo_samples.
SpecSamples == InitSamples /\ [][NextSamples]_vars

\* C32: adxl314_set_fifo_samples rejects samples > 0x60 with -EINVAL, without
\* a bus transfer and without a change to the registers or the device
\* structure; after a call that returned 0, dev->fifo_samples equals bits
\* 4:0 of FIFO_CTL, and the other bits of FIFO_CTL are as before the call.
C32_SamplesCached ==
    [][op' = "set_fifo_samples" =>
          /\ (arg_in' > ADXL314_MAX_FIFO_SAMPLES_VAL =>
                 /\ ret' = -EINVAL
                 /\ bus' = << >>
                 /\ UNCHANGED <<regs, dev, cache>>)
          /\ (arg_in' <= ADXL314_MAX_FIFO_SAMPLES_VAL /\ ret' = 0 =>
                 /\ cache'.fifo_samples = regs'[ADXL314_REG_FIFO_CTL] % 32
                 /\ regs'[ADXL314_REG_FIFO_CTL] \div 32
                      = regs[ADXL314_REG_FIFO_CTL] \div 32)]_vars

\* --------------------------------------- the FIFO data: SpecFifoData

\* The largest element of the set of integers S, or -1 if there is none.
MaxOf(S) == IF S = {} THEN -1 ELSE CHOOSE x \in S : \A y \in S : y <= x

\* No read of an entry fails.
NoFail == 64

\* What adxl314_get_raw_fifo_data returns once it has stored outside
\* xyz_values or the caller's arrays: the build decides.
UBResults == {0, -1}

\* The array elements the two functions use when FIFO_STATUS reported
\* entries and the first reads reads of an entry were made, the last of
\* them with the result last (0 if none was made).  buffer_used says whether
\* the last read handed its part of xyz_values to a transfer.
\*   xyz_wr: the highest element of xyz_values that a read filled, from
\*           &xyz_values[idx * ADXL314_REGS_PER_ENTRY], 6 bytes each;
\*   buff_wide: the highest idx * ADXL314_REGS_PER_ENTRY, before it is
\*           stored in the uint8_t buff_idx;
\*   xyz_rd: the highest xyz_values[buff_idx + 5] that was read;
\*   raw_wr: the highest idx of raw_x[idx], raw_y[idx], raw_z[idx] stored by
\*           adxl314_get_raw_fifo_data;
\*   raw_rd: the highest idx of raw_x[idx] read by adxl355_get_fifo_data.
FifoAccess(entries, reads, last, buffer_used) ==
    LET filled == IF last # 0 /\ ~buffer_used THEN reads - 1 ELSE reads
        second == IF last = 0 THEN 0..(entries - 1) ELSE {}
    IN [entries   |-> entries,
        xyz_wr    |-> IF filled = 0 THEN -1
                      ELSE (filled - 1) * ADXL314_REGS_PER_ENTRY
                            + ADXL314_REGS_PER_ENTRY - 1,
        buff_wide |-> MaxOf({0} \cup
                            {idx * ADXL314_REGS_PER_ENTRY : idx \in second}),
        xyz_rd    |-> MaxOf({((idx * ADXL314_REGS_PER_ENTRY) % 256) + 5 :
                                idx \in second}),
        raw_wr    |-> MaxOf(second),
        raw_rd    |-> MaxOf(second)]

\* The accesses stay inside xyz_values[192] and the 32-element arrays.
InBounds(a) ==
    /\ a.xyz_wr < ADXL314_MAX_FIFO_ENTRIES * ADXL314_REGS_PER_ENTRY
    /\ a.xyz_rd < ADXL314_MAX_FIFO_ENTRIES * ADXL314_REGS_PER_ENTRY
    /\ a.raw_wr < ADXL314_MAX_FIFO_ENTRIES
    /\ a.raw_rd < ADXL314_MAX_FIFO_ENTRIES

\* int adxl355_get_fifo_data(dev, x, y, z, entries), with its call of
\* adxl314_get_raw_fifo_data(dev, raw_x, raw_y, raw_z, entries).  in answers
\* the read of FIFO_STATUS; the read of entry fail_at (if there are that
\* many) gets the answers fin.r1, fin.r2, the reads before it 0.
adxl355_get_fifo_data(in, fail_at, fin) ==
    /\ op' = "get_fifo_data"
    /\ arg_in' = NoByte
    /\ m_in' = NoMode
    /\ m_out' = NoMode
    /\ bit_in' = NoBitArgs
    /\ \E st \in {adxl314_read_device_data(
                      dev, regs, ADXL314_ADDR(ADXL314_REG_FIFO_STATUS),
                      in.r1, in.r2)} :
          IF st.ret # 0
          THEN /\ ret' = st.ret
               /\ bus' = st.bus
               /\ acc' = NoAccess
          ELSE LET entries == And8(st.data, ADXL314_REG_FIFO_STS_ENTRIES_MSK)
                   ok == adxl314_read_device_data(
                             dev, regs,
                             ADXL314_ADDR(ADXL314_REG_DATA_AXIS(0)), 0, 0)
                   bad == adxl314_read_device_data(
                              dev, regs,
                              ADXL314_ADDR(ADXL314_REG_DATA_AXIS(0)),
                              fin.r1, fin.r2)
                   reads == IF fail_at < entries THEN fail_at + 1 ELSE entries
                   last == IF fail_at < entries THEN bad.ret ELSE 0
                   used == dev.comm_type = ADXL314_SPI_COMM \/ fin.r1 = 0
                   a == FifoAccess(entries, reads, last, used)
               IN /\ acc' = a
                  /\ bus' = st.bus
                            \o [i \in 1..reads |->
                                  IF i = fail_at + 1 THEN bad.bus[1]
                                  ELSE ok.bus[1]]
                  /\ ret' \in IF InBounds(a) THEN {last} ELSE UBResults
    /\ UNCHANGED <<fifo, c_in, c_out, history, alloc, flushv, phase, pcW, pcR,
                   regs, dev, last_set, cache, device, devheap>>

\* What FIFO_STATUS may hold: every entry count, with and without the
\* trigger bit.
FifoStatusStart == (0..63) \cup {128 + 33, 255}

\* The entry whose read fails.
FailAts == {NoFail, 0, 31, 32, 42}

\* The answers of the bus layer to a read that fails.
FailInputs == {[r1 |-> -1, r2 |-> 0], [r1 |-> 0, r2 |-> -1]}

InitFifoData == \E fs \in FifoStatusStart : InitDriver(0, fs)

GetFifoData ==
    \E in \in ReadInputs, fail_at \in FailAts, fin \in FailInputs :
        adxl355_get_fifo_data(in, fail_at, fin)

NextFifoData ==
    \/ GetFifoData

\* Calls of adxl355_get_fifo_data.
SpecFifoData == InitFifoData /\ [][NextFifoData]_vars

\* C31: whatever entry count FIFO_STATUS reports (0..63), a call of
\* adxl355_get_fifo_data uses xyz_values only inside its 192 bytes and
\* raw_x, raw_y, raw_z only inside their 32 elements, and idx * 6 fits the
\* 8-bit buff_idx.
C31_FifoIndexes ==
    op = "get_fifo_data" =>
        /\ acc.entries \in 0..63
        /\ InBounds(acc)
        /\ acc.buff_wide <= 255

\* ------------------------------------------ adxl314_init: SpecDevInit

\* The caller's pointer holds something from before the call.
StalePtr == "stale"

\* The registers adxl314_init reads after the device ID, in its order.
InitReads ==
    <<ADXL314_REG_BW_RATE, ADXL314_REG_OFS_AXIS(0), ADXL314_REG_OFS_AXIS(1),
      ADXL314_REG_OFS_AXIS(2), ADXL314_REG_FIFO_CTL, ADXL314_REG_FIFO_CTL>>

\* The field that adxl314_init caches from read number i of InitReads, whose
\* value was v.
CacheRead(c, i, v) ==
    IF i = 1 THEN [c EXCEPT !.odr = And8(v, ADXL314_RATE_MSK)]
    ELSE IF i = 2 THEN [c EXCEPT !.x_offset = v]
    ELSE IF i = 3 THEN [c EXCEPT !.y_offset = v]
    ELSE IF i = 4 THEN [c EXCEPT !.z_offset = v]
    ELSE IF i = 5
    THEN [c EXCEPT !.fifo_mode =
                      And8(v, ADXL314_REG_FIFO_CTL_MODE_MSK) \div 64]
    ELSE [c EXCEPT !.fifo_samples = And8(v, ADXL314_REG_FIFO_CTL_SAMPLES_MSK)]

\* The cached fields after the reads 1..n of InitReads, read number i with
\* the result rs[i]: a read that failed leaves its field as it was.
RECURSIVE CacheAfter(_, _, _, _)
CacheAfter(d, rg, rs, n) ==
    IF n = 0 THEN ZeroCache
    ELSE LET c == CacheAfter(d, rg, rs, n - 1)
             rd == adxl314_read_device_data(
                       d, rg, ADXL314_ADDR(InitReads[n]), rs[n], 0)
         IN IF rd.ret = 0 THEN CacheRead(c, n, rd.data) ELSE c

\* int adxl314_init(device, init_param).  calloc_ok: calloc returned a
\* block; bus_init: what no_os_spi_init / no_os_i2c_init returned; id: what
\* the bus layer answered to the read of the device ID; rs: what it answered
\* to the six reads after it.
adxl314_init(comm_type, calloc_ok, bus_init, id, rs) ==
    /\ device # DevPtr
    /\ devheap = {}
    /\ op' = "adxl314_init"
    /\ arg_in' = [calloc |-> calloc_ok, bus_init |-> bus_init]
    /\ m_in' = NoMode
    /\ m_out' = NoMode
    /\ bit_in' = NoBitArgs
    /\ IF ~calloc_ok
       THEN /\ ret' = -ENOMEM
            /\ bus' = << >>
            /\ UNCHANGED <<dev, cache, device, devheap>>
       ELSE IF bus_init # 0
       THEN \* error_dev: free(dev)
            /\ ret' = -ENODEV
            /\ bus' = << >>
            /\ UNCHANGED <<dev, cache, device, devheap>>
       ELSE \E d \in {[comm_type |-> comm_type, op_mode |-> ADXL314_STDBY]} :
            \E rd \in {adxl314_read_device_data(
                           d, regs, ADXL314_ADDR(ADXL314_DEVID_AD),
                           id.r1, id.r2)} :
               IF rd.ret # 0 \/ rd.data # ADXL314_DEVID
               THEN \* error_com: remove the bus descriptor, free(dev)
                    /\ ret' = -EPIPE
                    /\ bus' = rd.bus
                    /\ UNCHANGED <<dev, cache, device, devheap>>
               ELSE /\ device' = DevPtr
                    /\ devheap' = {DevBlock, ComDesc}
                    /\ dev' = d
                    /\ cache' = CacheAfter(d, regs, rs, Len(InitReads))
                    /\ bus' = rd.bus
                              \o [i \in 1..Len(InitReads) |->
                                    adxl314_read_device_data(
                                        d, regs, ADXL314_ADDR(InitReads[i]),
                                        rs[i], 0).bus[1]]
                    /\ ret' = adxl314_read_device_data(
                                  d, regs,
                                  ADXL314_ADDR(InitReads[Len(InitReads)]),
                                  rs[Len(InitReads)], 0).ret
    /\ UNCHANGED <<fifo, c_in, c_out, history, alloc, flushv, phase, pcW, pcR,
                   regs, last_set, acc>>

\* What the part answers as its device ID: the ADXL314's, and two others.
DevIdStart == {ADXL314_DEVID, 0, ADXL314_DEVID - 1}

\* What BW_RATE and FIFO_CTL may hold when adxl314_init reads them.
BwRateStart == {0, 26}
FifoCtlAtInit == {0, 74, 223}

\* Before adxl314_init: no device structure, the caller's pointer not
\* assigned or stale.
InitDevInit ==
    /\ NoQueue
    /\ NoFlush
    /\ stream = 0
    /\ \E id \in DevIdStart, bw \in BwRateStart, fc \in FifoCtlAtInit :
          regs = [a \in DriverAddrs |->
                    IF a = ADXL314_DEVID_AD THEN id
                    ELSE IF a = ADXL314_REG_BW_RATE THEN bw
                    ELSE IF a = ADXL314_REG_FIFO_CTL THEN fc
                    ELSE IF a = ADXL314_REG_OFS_AXIS(1) THEN 3
                    ELSE 0]
    /\ dev = [comm_type |-> ADXL314_SPI_COMM, op_mode |-> ADXL314_STDBY]
    /\ m_in = NoMode
    /\ m_out = NoMode
    /\ bus = << >>
    /\ last_set = NoMode
    /\ bit_in = NoBitArgs
    /\ cache = ZeroCache
    /\ device \in {NoDev, StalePtr}
    /\ devheap = {}
    /\ arg_in = NoByte
    /\ acc = NoAccess

DevInit ==
    \E comm_type \in {ADXL314_SPI_COMM, ADXL314_I2C_COMM},
       calloc_ok \in BOOLEAN, bus_init \in BusResults,
       id \in [r1 : BusResults, r2 : BusResults],
       rs \in [1..Len(InitReads) -> BusResults] :
        adxl314_init(comm_type, calloc_ok, bus_init, id, rs)

NextDevInit ==
    \/ DevInit

\* Calls of adxl314_init.
SpecDevInit == InitDevInit /\ [][NextDevInit]_vars

\* C33: adxl314_init returns 0 exactly when *device is assigned the live
\* device; after a return that is not 0, *device is as before the call and
\* neither the device structure nor the bus descriptor is allocated.  A
\* failed bus initialisation gives -ENODEV, a failed read of the device ID
\* or an ID other than 0xE5 gives -EPIPE.
C33_InitAllOrNothing ==
    op = "adxl314_init" =>
        /\ (ret = 0 <=> device = DevPtr)
        /\ (ret = 0 => devheap = {DevBlock, ComDesc})
        /\ (ret # 0 => devheap = {})
        /\ (arg_in.calloc /\ arg_in.bus_init # 0 => ret = -ENODEV)
        /\ (arg_in.calloc /\ arg_in.bus_init = 0
              /\ (bus[1].ret # 0 \/ bus[1].val # ADXL314_DEVID)
              => ret = -EPIPE)

====
